---- MODULE Spec2Model ----
(***************************************************************************)
(* A model of src/src/lib/file-reader.ts: the DICOM file reader (readFile, *)
(* readDataset and the helpers they call) and the pixel pipeline           *)
(* (getPixelData).                                                         *)
(*                                                                         *)
(* Byte buffers (Uint8Array) are sequences of 0..255.  JavaScript numbers  *)
(* are integers here; a 32-bit unsigned field is kept as its two 16-bit    *)
(* halves <<hi, lo>> because the model checker's integers are 32-bit       *)
(* signed and 0xFFFFFFFF (the undefined length) does not fit.              *)
(***************************************************************************)
EXTENDS Integers, Sequences, FiniteSets, TLC

\* ------------------------------------------------------------------ bounds
\* The number of encoded elements an input buffer is built from.
MaxElems == 2
\* The number of bytes an input buffer may lose at its end.
MaxTrunc == 3

\* --------------------------------------------------------- small helpers
Min(a, b) == IF a < b THEN a ELSE b
Max(a, b) == IF a > b THEN a ELSE b
Abs(a) == IF a < 0 THEN -a ELSE a

\* lodash inRange(n, start, end): start <= n < end.
inRange(n, start, end) == start <= n /\ n < end

\* Uint8Array.prototype.slice(start, end) for 0 <= start: the bytes at the
\* 0-based indices start .. end-1 that the array holds.
Slice(array, start, end) == SubSeq(array, start + 1, Min(end, Len(array)))

\* Uint8Helpers.getArrayRange
getArrayRange(array, start, range) == Slice(array, start, start + range)

\* Uint8Helpers.splitArray
splitArray(array, firstArrayElements) ==
  << Slice(array, 0, firstArrayElements),
     Slice(array, firstArrayElements, Len(array)) >>

\* String.fromCharCode(byte) as a string of the model: digits, letters, the
\* space and the full stop are themselves, every other code is an escape
\* that no two-letter VR and no UID contains.
Digits == "0123456789"
UpperCase == "ABCDEFGHIJKLMNOPQRSTUVWXYZ"
LowerCase == "abcdefghijklmnopqrstuvwxyz"

fromCharCode(byte) ==
  CASE byte \in 48..57 -> SubSeq(Digits, byte - 47, byte - 47)
    [] byte \in 65..90 -> SubSeq(UpperCase, byte - 64, byte - 64)
    [] byte \in 97..122 -> SubSeq(LowerCase, byte - 96, byte - 96)
    [] byte = 32 -> " "
    [] byte = 46 -> "."
    [] OTHER -> "{" \o ToString(byte) \o "}"

\* Uint8Helpers.arrayToText
RECURSIVE arrayToText(_)
arrayToText(array) ==
  IF array = <<>> THEN ""
  ELSE fromCharCode(Head(array)) \o arrayToText(Tail(array))

\* Number.prototype.toString(16) of one hex digit, lower case.
HexDigits == "0123456789abcdef"
HexDigit(d) == SubSeq(HexDigits, d + 1, d + 1)

\* n.toString(16) for n >= 0.
RECURSIVE toString16(_)
toString16(n) ==
  IF n < 16 THEN HexDigit(n) ELSE toString16(n \div 16) \o HexDigit(n % 16)

\* takeRight of the zero-padded hex string, 4 characters, joined.
takeRight4(s) == SubSeq(s, Len(s) - 3, Len(s))

getHexRepresentation(group, element) ==
  [ hexGroup   |-> takeRight4("0000" \o toString16(group)),
    hexElement |-> takeRight4("0000" \o toString16(element)) ]

\* ------------------------------------------------------------- Bufferpack
\* Bufferpack.unpack(pattern, data): a pattern is its endianness character
\* followed by its tokens; "H" is a u16, "L" a u32 (kept as <<hi, lo>>),
\* "2s" a two-byte string (kept as its character codes).  The library
\* returns undefined when the data is shorter than the pattern: ok = FALSE.
TokenSize(token) == CASE token = "H" -> 2 [] token = "L" -> 4 [] token = "2s" -> 2

U16(data, p, little) ==
  IF little THEN data[p + 1] + 256 * data[p + 2]
            ELSE 256 * data[p + 1] + data[p + 2]

U32(data, p, little) ==
  IF little THEN << U16(data, p + 2, TRUE), U16(data, p, TRUE) >>
            ELSE << U16(data, p, FALSE), U16(data, p + 2, FALSE) >>

RECURSIVE UnpackTokens(_, _, _, _)
UnpackTokens(tokens, data, p, little) ==
  IF tokens = <<>> THEN [ok |-> TRUE, v |-> <<>>]
  ELSE
    LET token == Head(tokens)
        s == TokenSize(token)
    IN IF p + s > Len(data) THEN [ok |-> FALSE, v |-> <<>>]
       ELSE
         LET rest == UnpackTokens(Tail(tokens), data, p + s, little)
             val == CASE token = "H" -> U16(data, p, little)
                      [] token = "L" -> U32(data, p, little)
                      [] token = "2s" -> << data[p + 1], data[p + 2] >>
         IN IF rest.ok THEN [ok |-> TRUE, v |-> <<val>> \o rest.v]
            ELSE rest

BufferpackUnpack(pattern, data) ==
  UnpackTokens(Tail(pattern), data, 0, Head(pattern) = "<")

\* helpers.ts: getEndianCharacter, getEndianPattern
getEndianCharacter(isLittleEndian) == IF isLittleEndian THEN "<" ELSE ">"

getEndianPattern(isLittleEndian, isImplicitVR) ==
  IF isImplicitVR
    THEN << getEndianCharacter(isLittleEndian), "H", "H", "L" >>
    ELSE << getEndianCharacter(isLittleEndian), "H", "H", "2s", "H" >>

\* A JavaScript number as a 32-bit field, and back (the value of a field
\* whose high half is below 2^15).
ToU32(n) == << n \div 65536, n % 65536 >>
U32Value(len) == len[1] * 65536 + len[2]

\* parseInt of 0xFFFFFFFF
UndefinedLength == << 65535, 65535 >>

\* ------------------------------------------------------------- constants
\* constants/index.ts: ExtraLengthVRs, KnownUIDs, GroupLengthEntry,
\* DicomDictionary (the entries the inputs use), DicomDictionaryEntriesEnum.
ExtraLengthVRs == { "OB", "OW", "OF", "SQ", "UT", "UN" }

ImplicitVRLittleEndian == "1.2.840.10008.1.2"
ExplicitVRLittleEndian == "1.2.840.10008.1.2.1"
ExplicitVRBigEndian == "1.2.840.10008.1.2.2"
DeflatedExplicitVRLittleEndian == "1.2.840.10008.1.2.1.99"

DICOM_MAGIC_PREFIX == "DICM"

\* Tag: VR, VM, Name, Retired, Keyword
EnumVR == 1
EnumVM == 2
EnumName == 3
EnumRetired == 4
EnumKeyword == 5

GroupLengthEntry == << "UL", "1", "Group Length", "", "GroupLength" >>

DictionaryTags == { "00020010", "00080005", "00100020", "7fe00010" }

DicomDictionary ==
  [ t \in DictionaryTags |->
      CASE t = "00020010" -> << "UI", "1", "Transfer Syntax UID", "", "TransferSyntaxUID" >>
        [] t = "00080005" -> << "CS", "1-n", "Specific Character Set", "", "SpecificCharacterSet" >>
        [] t = "00100020" -> << "LO", "1", "Patient ID", "", "PatientID" >>
        [] t = "7fe00010" -> << "OB or OW", "1", "Pixel Data", "", "PixelData" >> ]

\* DicomDictionary[tag] of a tag the table may lack: <<>> is undefined.
DictionaryLookup(tag) == IF tag \in DictionaryTags THEN DicomDictionary[tag] ELSE <<>>

\* converter.ts: the VRs that have a converter.
ConverterVRs ==
  { "UI", "CS", "SH", "LO", "ST", "LT", "UT", "PN", "AE", "AS", "DA", "TM", "DT",
    "IS", "DS", "US", "SS", "UL", "SL", "FL", "FD", "AT", "OB", "OW", "OF", "UN", "SQ" }

StringVRs ==
  { "UI", "CS", "SH", "LO", "ST", "LT", "UT", "PN", "AE", "AS", "DA", "TM", "DT" }

\* The null of JavaScript and undefined where a string is expected.
null == "null"
undefined == "undefined"

\* ------------------------------------------------------------- converter
\* converter.ts, convertValue(VR, tagInfo, isLittleEndian): a string VR gives
\* the text without its trailing NULs and spaces, US gives the list of its
\* integers, UL the list of its integers (each as its two 16-bit halves,
\* high then low), every other VR (and the empty VR) the raw bytes.
RECURSIVE trimEnd(_)
trimEnd(array) ==
  IF array # <<>> /\ array[Len(array)] \in {0, 32}
    THEN trimEnd(SubSeq(array, 1, Len(array) - 1))
    ELSE array

RECURSIVE unpackNumbers(_, _, _)
unpackNumbers(array, size, isLittleEndian) ==
  IF Len(array) < size THEN <<>>
  ELSE (IF size = 2 THEN << U16(array, 0, isLittleEndian) >>
                    ELSE U32(array, 0, isLittleEndian))
       \o unpackNumbers(SubSeq(array, size + 1, Len(array)), size, isLittleEndian)

convertValue(VR, tagInfo, isLittleEndian) ==
  CASE VR \in StringVRs ->
         [kind |-> "string", str |-> arrayToText(trimEnd(tagInfo.rawValue)), list |-> <<>>]
    [] VR = "US" ->
         [kind |-> "numbers", str |-> "", list |-> unpackNumbers(tagInfo.rawValue, 2, isLittleEndian)]
    [] VR = "UL" ->
         [kind |-> "halves", str |-> "", list |-> unpackNumbers(tagInfo.rawValue, 4, isLittleEndian)]
    [] OTHER ->
         [kind |-> "bytes", str |-> "", list |-> tagInfo.rawValue]

\* ---------------------------------------------------------------- tags
\* getTagName
getTagName(dicomDictionaryEntry, isPrivateTag) ==
  IF isPrivateTag THEN "PrivateTag"
  ELSE IF dicomDictionaryEntry = <<>> THEN "Unknown"
  ELSE dicomDictionaryEntry[EnumName]

\* lodash get(entry, index, defaultValue)
getOr(dicomDictionaryEntry, index, defaultValue) ==
  IF dicomDictionaryEntry = <<>> THEN defaultValue ELSE dicomDictionaryEntry[index]

\* createTag(group, element, values), given its isPrivateTag.  threw: the
\* TypeError of reading the VR of a dictionary entry that is undefined.
TagOf(values, representations, stringRepresentation, VR, name, VM, keyword, retired) ==
  [ length |-> values.length, rawValue |-> values.rawValue, value |-> values.value,
    representations |-> representations, representation |-> stringRepresentation,
    VR |-> VR, name |-> name, VM |-> VM, keyword |-> keyword, retired |-> retired ]

createTagFrom(isPrivateTag, values, representations, stringRepresentation, dicomDictionaryEntry) ==
  IF isPrivateTag
    THEN [ threw |-> FALSE,
           tag |-> TagOf(values, representations, stringRepresentation,
                         "Unknown-PrivateTag", "Unknown-PrivateTag", "Unknown-PrivateTag",
                         "Unknown-PrivateTag", "Unknown-PrivateTag") ]
  ELSE IF values.VR \in {null, ""} /\ dicomDictionaryEntry = <<>>
    THEN [ threw |-> TRUE ]
  ELSE [ threw |-> FALSE,
         tag |-> TagOf(values, representations, stringRepresentation,
                       IF values.VR \in {null, ""}
                         THEN dicomDictionaryEntry[EnumVR] ELSE values.VR,
                       getTagName(dicomDictionaryEntry, FALSE),
                       getOr(dicomDictionaryEntry, EnumVM, "Unknown"),
                       getOr(dicomDictionaryEntry, EnumKeyword, "Unknown"),
                       getOr(dicomDictionaryEntry, EnumRetired, "Unknown")) ]

createTagWith(isPrivateTag, group, element, hex, dicomDictionaryEntry, values) ==
  createTagFrom(isPrivateTag, values,
                [ group |-> group, element |-> element,
                  hexGroup |-> hex.hexGroup, hexElement |-> hex.hexElement,
                  name |-> getTagName(dicomDictionaryEntry, isPrivateTag) ],
                hex.hexGroup \o hex.hexElement, dicomDictionaryEntry)

dictionaryEntryOf(hex) ==
  IF hex.hexElement = "0000" THEN GroupLengthEntry
  ELSE DictionaryLookup(hex.hexGroup \o hex.hexElement)

\* createTag with a private-tag test that never holds.
createTagNoPrivate(group, element, values) ==
  createTagWith(FALSE, group, element, getHexRepresentation(group, element),
                dictionaryEntryOf(getHexRepresentation(group, element)), values)

createTag(group, element, values) ==
  createTagWith(group % 2 # 0, group, element, getHexRepresentation(group, element),
                dictionaryEntryOf(getHexRepresentation(group, element)), values)

\* getTagInfo(rawValue, length, group, element, VR).  threw: the Error thrown
\* when group, element and VR are all falsy.
getTagInfo(rawValue, length, group, element, VR) ==
  IF group = 0 /\ element = 0 /\ VR \in {null, ""}
    THEN [ threw |-> TRUE ]
  ELSE IF VR \notin {null, ""}
    THEN [ threw |-> FALSE, rawValue |-> rawValue, length |-> length, VR |-> VR ]
  ELSE
    LET hex == getHexRepresentation(group, element)
        dicomDictionaryEntry == DictionaryLookup(hex.hexGroup \o hex.hexElement)
        guessVR == IF hex.hexElement = "0000" THEN GroupLengthEntry[EnumVR]
                   ELSE IF dicomDictionaryEntry # <<>> THEN dicomDictionaryEntry[EnumVR]
                   ELSE ""
    IN [ threw |-> FALSE, rawValue |-> rawValue, length |-> length, VR |-> guessVR ]

\* unpack(data, tagData, elementPattern, isImplicitVR, isLittleEndian, cursor)
\* of the 8 header bytes tagData.  threw: the TypeError of destructuring the
\* undefined that Bufferpack returns for an extra length of fewer than 4 bytes.
isUppercaseLetter(code) == inRange(code, 65, 90)

defaultTagLength == 8
extraLength == 4

unpack(data, tagData, elementPattern, isImplicitVR, isLittleEndian, cursor) ==
  LET first == BufferpackUnpack(elementPattern, tagData).v
  IN IF isImplicitVR
       THEN [ threw |-> FALSE, group |-> first[1], elem |-> first[2], VR |-> null,
              length |-> first[3], cursorChange |-> defaultTagLength ]
     ELSE IF ~(isUppercaseLetter(first[3][1]) /\ isUppercaseLetter(first[3][2]))
       THEN LET again == BufferpackUnpack(getEndianPattern(isLittleEndian, TRUE), tagData).v
            IN [ threw |-> FALSE, group |-> again[1], elem |-> again[2], VR |-> null,
                 length |-> again[3], cursorChange |-> defaultTagLength ]
     ELSE IF arrayToText(first[3]) \in ExtraLengthVRs
       THEN LET extraLengthInfo == getArrayRange(data, cursor + defaultTagLength, extraLength)
                trueLength == BufferpackUnpack(<< getEndianCharacter(isLittleEndian), "L" >>,
                                               extraLengthInfo)
            IN IF ~trueLength.ok THEN [ threw |-> TRUE ]
               ELSE [ threw |-> FALSE, group |-> first[1], elem |-> first[2],
                      VR |-> arrayToText(first[3]), length |-> trueLength.v[1],
                      cursorChange |-> defaultTagLength + extraLength ]
     ELSE [ threw |-> FALSE, group |-> first[1], elem |-> first[2],
            VR |-> arrayToText(first[3]), length |-> ToU32(first[4]),
            cursorChange |-> defaultTagLength ]

\* ------------------------------------------------------------- datasets
\* A Dataset (a JavaScript object with string keys, in insertion order) is
\* the sequence of its entries [key, tag].
Keys(object) == { object[i].key : i \in 1..Len(object) }
has(object, key) == key \in Keys(object)

\* lodash get(object, key): <<>> is undefined, <<tag>> the tag found.
get(object, key) ==
  IF has(object, key)
    THEN << object[CHOOSE i \in 1..Len(object) : object[i].key = key].tag >>
    ELSE <<>>

\* object[key] = tag: an existing key keeps its place, a new one is appended.
Put(object, key, tag) ==
  IF has(object, key)
    THEN [ i \in 1..Len(object) |->
             IF object[i].key = key THEN [key |-> key, tag |-> tag] ELSE object[i] ]
    ELSE Append(object, [key |-> key, tag |-> tag])

\* { ...object, ...other }
RECURSIVE Spread(_, _)
Spread(object, other) ==
  IF other = <<>> THEN object
  ELSE Spread(Put(object, Head(other).key, Head(other).tag), Tail(other))

\* getSafeKey(object, key): the loop from a given index on.
RECURSIVE SafeIndex(_, _, _)
SafeIndex(object, key, index) ==
  IF has(object, IF index = 0 THEN key ELSE key \o "-" \o ToString(index))
    THEN SafeIndex(object, key, index + 1)
    ELSE index

getSafeKeyNoLoop(object, key) == key \o "-" \o ToString(1)

getSafeKey(object, key) == key \o "-" \o ToString(SafeIndex(object, key, 1))

\* The stop predicates _notGroup0000, _notGroup0002; undefined is none.
StopWhenFunctions == { "_notGroup0000", "_notGroup0002" }
isFunction(stopWhen) == stopWhen \in StopWhenFunctions
_notGroup0000(group) == group # 0
_notGroup0002(group) == group # 2
CallStopWhen(stopWhen, group, VR, length) ==
  CASE stopWhen = "_notGroup0000" -> _notGroup0000(group)
    [] stopWhen = "_notGroup0002" -> _notGroup0002(group)

\* _isImplicitVr(bytes, cursor, isImplicitVRAssumed, isLittleEndian, isSequence, stopWhen)
_isImplicitVr(bytes, cursor, isImplicitVRAssumed, isLittleEndian, isSequence, stopWhen) ==
  IF isSequence /\ isImplicitVRAssumed THEN TRUE
  ELSE
    LET data == getArrayRange(bytes, cursor, 6)
        tagBytes == splitArray(data, 4)[1]
        rawVR == splitArray(data, 4)[2]
    IN IF Len(rawVR) < 2 THEN isImplicitVRAssumed
       ELSE
         LET foundImplicit == ~(inRange(rawVR[1], 64, 91) /\ inRange(rawVR[2], 64, 91))
             endianCharacter == IF isLittleEndian THEN "<" ELSE ">"
             tag == BufferpackUnpack(<< endianCharacter, "H", "H" >>, tagBytes).v
             vr == arrayToText(rawVR)
         IN IF foundImplicit # isImplicitVRAssumed
              THEN IF isFunction(stopWhen) /\ CallStopWhen(stopWhen, tag[1], vr, 0)
                     THEN foundImplicit
                   ELSE IF foundImplicit /\ isSequence THEN TRUE
                   ELSE foundImplicit
              ELSE foundImplicit

\* readOrGuessIsImplicitVrAndIsLittleEndian(bytes, cursor, transferSyntax);
\* transferSyntax is <<tag>> or <<>> (undefined).  threw: the TypeError of
\* destructuring the undefined that Bufferpack returns for fewer than 6 bytes.
getReturnObject(isImplicitVR, isLittleEndian) ==
  [ threw |-> FALSE, isImplicitVR |-> isImplicitVR, isLittleEndian |-> isLittleEndian ]

readOrGuessIsImplicitVrAndIsLittleEndian(bytes, cursor, transferSyntax) ==
  LET peek == getArrayRange(bytes, cursor, 1)
  IN IF Len(peek) = 0 THEN getReturnObject(TRUE, TRUE)
     ELSE IF transferSyntax = <<>>
       THEN LET data == getArrayRange(bytes, cursor, 6)
                unpacked == BufferpackUnpack(<< "<", "H", "H", "2s" >>, data)
            IN IF ~unpacked.ok THEN [ threw |-> TRUE ]
               ELSE IF arrayToText(unpacked.v[3]) \in ConverterVRs
                 THEN IF unpacked.v[1] >= 1024 THEN getReturnObject(FALSE, FALSE)
                      ELSE getReturnObject(FALSE, TRUE)
               ELSE getReturnObject(TRUE, TRUE)
     ELSE
       CASE transferSyntax[1].value.str = ImplicitVRLittleEndian -> getReturnObject(TRUE, TRUE)
         [] transferSyntax[1].value.str = ExplicitVRLittleEndian -> getReturnObject(FALSE, TRUE)
         [] transferSyntax[1].value.str = ExplicitVRBigEndian -> getReturnObject(FALSE, FALSE)
         [] transferSyntax[1].value.str = DeflatedExplicitVRLittleEndian -> getReturnObject(TRUE, TRUE)
         [] OTHER -> getReturnObject(FALSE, TRUE)

\* readPreamble(bytes)
readPreamble(bytes) ==
  LET fileMetaInformationHeader == splitArray(bytes, 132)[1]
      preamble == splitArray(fileMetaInformationHeader, 128)[1]
      magic == splitArray(fileMetaInformationHeader, 128)[2]
      magicAsText == arrayToText(magic)
  IN IF magicAsText # DICOM_MAGIC_PREFIX
       THEN [ preamble |-> <<>>, newCursorPosition |-> 0 ]
       ELSE [ preamble |-> preamble, newCursorPosition |-> 132 ]

\* ------------------------------------------------------------- readDataset
\* The frame of one call readDataset(bytes, cursor, isImplicitVRAssumed,
\* isLittleEndian, stopWhen) as it enters its loop.
EnterReadDataset(bytes, cursor, isImplicitVRAssumed, isLittleEndian, stopWhen) ==
  LET implicit == _isImplicitVr(bytes, cursor, isImplicitVRAssumed, isLittleEndian,
                                TRUE, stopWhen)
  IN [ cursor |-> cursor,
       isImplicitVR |-> implicit,
       isLittleEndian |-> isLittleEndian,
       stopWhen |-> stopWhen,
       elementPattern |-> getEndianPattern(isLittleEndian, implicit),
       dataset |-> <<>>,
       cursorPositionChange |-> 0 ]

tagLength == 8

\* One iteration of the loop of readDataset on frame f: it breaks, throws, or
\* goes on with a new cursorPositionChange and dataset.  header records what
\* the iteration parsed and the key it inserted ("" when it inserted nothing).
\* The iteration is written as the chain of its statements, each passing
\* the values it bound to the next.
Header(f, u, key) ==
  [ offset |-> f.cursor + f.cursorPositionChange,
    group |-> u.group, elem |-> u.elem, VR |-> u.VR,
    length |-> u.length, cursorChange |-> u.cursorChange, key |-> key ]

Continue(f, u, cursorPositionChange, dataset, key) ==
  [ kind |-> "continue", cursorPositionChange |-> cursorPositionChange,
    dataset |-> dataset, header |-> Header(f, u, key) ]

\* line 387: dataset[getSafeKey(dataset, tag.keyword)] = tag
InsertTag(f, u, afterValue, tag, key) ==
  Continue(f, u, afterValue, Put(f.dataset, key, tag), key)

\* lines 380-387
AfterCreateTag(f, u, afterValue, created) ==
  IF created.threw
    THEN [ kind |-> "threw", error |-> "TypeError: cannot read properties of undefined" ]
    ELSE InsertTag(f, u, afterValue, created.tag, getSafeKey(f.dataset, created.tag.keyword))

\* lines 379-385
AfterGetTagInfo(f, u, value, afterValue, tagInfo) ==
  IF tagInfo.threw THEN [ kind |-> "threw", error |-> "Error" ]
  ELSE AfterCreateTag(f, u, afterValue,
         createTag(u.group, u.elem,
           [ VR |-> u.VR, length |-> u.length, rawValue |-> value,
             value |-> convertValue(IF u.VR \in {null, ""} THEN tagInfo.VR ELSE u.VR,
                                    tagInfo, f.isLittleEndian) ]))

\* lines 371-388
ReadValue(f, u, value, afterValue) ==
  IF u.VR # "NONE"
    THEN AfterGetTagInfo(f, u, value, afterValue,
                         getTagInfo(value, u.length, u.group, u.elem, u.VR))
    ELSE Continue(f, u, afterValue, f.dataset, "")

\* lines 367-402, with cursorPositionChange already advanced past the header
AfterHeader(f, data, u, afterHeader) ==
  IF u.length # UndefinedLength
    THEN IF u.length # << 0, 0 >>
           THEN ReadValue(f, u, getArrayRange(data, afterHeader, U32Value(u.length)),
                          afterHeader + U32Value(u.length))
           ELSE Continue(f, u, afterHeader, f.dataset, "")
    \* length is 0xFFFFFFFF: the branch only logs.
    ELSE Continue(f, u, afterHeader, f.dataset, "")

\* lines 352-367
AfterUnpack(f, data, u) ==
  IF u.threw THEN [ kind |-> "threw", error |-> "TypeError: undefined is not iterable" ]
  ELSE IF isFunction(f.stopWhen) /\ CallStopWhen(f.stopWhen, u.group, u.VR, u.length)
    THEN [ kind |-> "break" ]
  ELSE AfterHeader(f, data, u, f.cursorPositionChange + u.cursorChange)

\* lines 342-359
AfterTagData(f, data, tagData) ==
  IF Len(tagData) # 8 THEN [ kind |-> "break" ]
  ELSE AfterUnpack(f, data, unpack(data, tagData, f.elementPattern, f.isImplicitVR,
                                   f.isLittleEndian, f.cursorPositionChange))

IterationOn(f, data) ==
  AfterTagData(f, data, getArrayRange(data, f.cursorPositionChange, tagLength))

Iteration(bytes, f) == IterationOn(f, splitArray(bytes, f.cursor)[2])

\* ------------------------------------------------------------------ inputs
\* The input buffers: an optional preamble with its magic, then up to
\* MaxElems encoded elements, the whole cut short by up to MaxTrunc bytes.
Zeros(n) == [ i \in 1..n |-> 0 ]
PreambleAndMagic == Zeros(128) \o << 68, 73, 67, 77 >>

\* "1.2.840.10008.1.2" and "1.2.840.10008.1.2.2", padded with a NUL.
UidImplicitLE == << 49, 46, 50, 46, 56, 52, 48, 46, 49, 48, 48, 48, 56, 46, 49, 46, 50, 0 >>
UidExplicitBE == << 49, 46, 50, 46, 56, 52, 48, 46, 49, 48, 48, 48, 56, 46, 49, 46, 50, 46, 50, 0 >>

PieceNames ==
  { "metaGroupLength", "metaTransferSyntaxImplicitLE", "metaTransferSyntaxExplicitBE",
    "commandGroupLength", "commandImplicit", "explicitCS", "privateUN",
    "privateUndefinedLength", "privateZeroLength", "implicitUnknown", "explicitZZ",
    "bigEndianCS", "implicitLO" }

Piece(name) ==
  CASE name = "metaGroupLength" ->
         \* (0002,0000) UL 4
         << 2, 0, 0, 0, 85, 76, 4, 0, 16, 0, 0, 0 >>
    [] name = "metaTransferSyntaxImplicitLE" ->
         \* (0002,0010) UI 18
         << 2, 0, 16, 0, 85, 73, 18, 0 >> \o UidImplicitLE
    [] name = "metaTransferSyntaxExplicitBE" ->
         \* (0002,0010) UI 20
         << 2, 0, 16, 0, 85, 73, 20, 0 >> \o UidExplicitBE
    [] name = "commandGroupLength" ->
         \* (0000,0000) UL 4
         << 0, 0, 0, 0, 85, 76, 4, 0, 8, 0, 0, 0 >>
    [] name = "commandImplicit" ->
         \* (0000,0000) implicit VR, length 2
         << 0, 0, 0, 0, 2, 0, 0, 0, 7, 7 >>
    [] name = "explicitCS" ->
         \* (0008,0005) CS 2 "AB"
         << 8, 0, 5, 0, 67, 83, 2, 0, 65, 66 >>
    [] name = "privateUN" ->
         \* (0009,1001) UN, reserved 0, length 2
         << 9, 0, 1, 16, 85, 78, 0, 0, 2, 0, 0, 0, 33, 34 >>
    [] name = "privateUndefinedLength" ->
         \* (0009,1001) UN, reserved 0, length 0xFFFFFFFF
         << 9, 0, 1, 16, 85, 78, 0, 0, 255, 255, 255, 255 >>
    [] name = "privateZeroLength" ->
         \* (0009,1002) LO 0
         << 9, 0, 2, 16, 76, 79, 0, 0 >>
    [] name = "implicitUnknown" ->
         \* (0008,0099) implicit VR, length 2: not in the dictionary
         << 8, 0, 153, 0, 2, 0, 0, 0, 65, 66 >>
    [] name = "explicitZZ" ->
         \* (0008,0005) with the VR "ZZ", length 2
         << 8, 0, 5, 0, 90, 90, 2, 0, 65, 66 >>
    [] name = "bigEndianCS" ->
         \* (0008,0005) CS 2 "AB", big endian
         << 0, 8, 0, 5, 67, 83, 0, 2, 65, 66 >>
    [] name = "implicitLO" ->
         \* (0010,0020) implicit VR, length 2 "ID"
         << 16, 0, 32, 0, 2, 0, 0, 0, 73, 68 >>

RECURSIVE Concat(_)
Concat(names) == IF Len(names) = 0 THEN <<>> ELSE Piece(Head(names)) \o Concat(Tail(names))

PieceSequences == UNION { [1..n -> PieceNames] : n \in 0..MaxElems }

Inputs ==
  { LET whole == (IF withPreamble THEN PreambleAndMagic ELSE <<>>) \o Concat(names)
    IN SubSeq(whole, 1, Len(whole) - cut) :
      withPreamble \in BOOLEAN, names \in PieceSequences, cut \in 0..MaxTrunc }

\* ------------------------------------------------------------------- state
VARIABLES
  bytes,                \* readFile: the bytes of the file
  pc,                   \* where readFile stands
  cursorAfterPreamble,  \* readFile
  cursorAfterFileMeta,  \* readFile
  datasetStart,         \* readFile
  fileMetaInfo,         \* readFile
  commandSetElements,   \* readFile
  dataset,              \* readFile: the main dataset
  mode,                 \* readFile: [isImplicitVR, isLittleEndian]
  fullDataset,          \* readFile: the value returned
  frame,                \* the running call of readDataset
  caller,               \* which call of readDataset is running
  headers,              \* history: the headers the running call went past
  error,                \* the exception that left readFile, "" when none
  object,               \* getSafeKey: the object the keys are made for
  insertions,           \* history: the keywords inserted into object
  pixel,                \* getPixelData: the tags it reads from the dataset
  stage,                \* getPixelData: where it stands
  pixelDataBigEndian,   \* getPixelData
  pixelDataSignedScaled,    \* getPixelData
  pixelDataWindowAdjusted,  \* getPixelData
  hexStringArrayPixelData   \* getPixelData: the value returned

fileVars == << bytes, pc, cursorAfterPreamble, cursorAfterFileMeta, datasetStart,
               fileMetaInfo, commandSetElements, dataset, mode, fullDataset,
               frame, caller, headers, error >>
keyVars == << object, insertions >>
pixelVars == << pixel, stage, pixelDataBigEndian, pixelDataSignedScaled,
                pixelDataWindowAdjusted, hexStringArrayPixelData >>
vars == << fileVars, keyVars, pixelVars >>

NoFrame ==
  [ cursor |-> 0, isImplicitVR |-> FALSE, isLittleEndian |-> TRUE, stopWhen |-> undefined,
    elementPattern |-> <<>>, dataset |-> <<>>, cursorPositionChange |-> 0 ]

\* A tag that a dataset lacks is <<>>, a tag it holds is << value >>.
NoPixel ==
  [ bitsAllocated |-> 8, bitsStored |-> 8, highBit |-> 7,
    photometricInterpretation |-> <<>>, pixelRepresentation |-> 0,
    rescaleIntercept |-> <<>>, rescaleSlope |-> <<>>,
    windowCenter |-> <<>>, windowWidth |-> <<>>, pixelData |-> <<>> ]

\* The variables of readFile, of getSafeKey and of getPixelData before the
\* function they belong to is called.
FileStart(start) ==
  /\ pc = start
  /\ cursorAfterPreamble = 0
  /\ cursorAfterFileMeta = 0
  /\ datasetStart = 0
  /\ fileMetaInfo = <<>>
  /\ commandSetElements = <<>>
  /\ dataset = <<>>
  /\ mode = [ isImplicitVR |-> TRUE, isLittleEndian |-> TRUE ]
  /\ fullDataset = [ tags |-> <<>>, isLittleEndian |-> TRUE, isImplicitVR |-> TRUE ]
  /\ frame = NoFrame
  /\ caller = ""
  /\ headers = <<>>
  /\ error = ""

KeyStart ==
  /\ object = <<>>
  /\ insertions = <<>>

PixelStart(start) ==
  /\ stage = start
  /\ pixelDataBigEndian = <<>>
  /\ pixelDataSignedScaled = <<>>
  /\ pixelDataWindowAdjusted = <<>>
  /\ hexStringArrayPixelData = <<>>

\* ---------------------------------------------------------------- readFile
Init ==
  /\ bytes \in Inputs
  /\ FileStart("readPreamble")
  /\ KeyStart
  /\ pixel = NoPixel
  /\ PixelStart("idle")

\* readFile, lines 850-853: readPreamble, then the call of readFileMetaInfo.
ReadPreamble ==
  /\ pc = "readPreamble"
  /\ cursorAfterPreamble' = readPreamble(bytes).newCursorPosition
  /\ frame' = EnterReadDataset(bytes, cursorAfterPreamble', FALSE, TRUE, "_notGroup0002")
  /\ caller' = "readFileMetaInfo"
  /\ headers' = <<>>
  /\ pc' = "loop"
  /\ UNCHANGED << bytes, cursorAfterFileMeta, datasetStart, fileMetaInfo,
                  commandSetElements, dataset, mode, fullDataset, error >>
  /\ UNCHANGED << keyVars, pixelVars >>

\* readDataset, lines 341-403: an iteration that goes on.
GoOn(it) ==
  /\ it.kind = "continue"
  /\ frame' = [ frame EXCEPT !.cursorPositionChange = it.cursorPositionChange,
                             !.dataset = it.dataset ]
  /\ headers' = Append(headers, it.header)

ReadElement ==
  /\ pc = "loop"
  /\ GoOn(Iteration(bytes, frame))
  /\ UNCHANGED << bytes, pc, cursorAfterPreamble, cursorAfterFileMeta, datasetStart,
                  fileMetaInfo, commandSetElements, dataset, mode, fullDataset,
                  caller, error >>
  /\ UNCHANGED << keyVars, pixelVars >>

\* An exception raised in an iteration: nothing in readDataset or readFile
\* catches it, so it leaves readFile (the promise is rejected).
Raise(it) ==
  /\ it.kind = "threw"
  /\ error' = it.error

Throw ==
  /\ pc = "loop"
  /\ Raise(Iteration(bytes, frame))
  /\ pc' = "threw"
  /\ UNCHANGED << bytes, cursorAfterPreamble, cursorAfterFileMeta, datasetStart,
                  fileMetaInfo, commandSetElements, dataset, mode, fullDataset,
                  frame, caller, headers >>
  /\ UNCHANGED << keyVars, pixelVars >>

\* The cursor returned had the loop advanced past the header it stopped at.
newCursorPositionPastHeader(f) == f.cursor + f.cursorPositionChange + tagLength

newCursorPosition(f) == f.cursor + f.cursorPositionChange

\* readFileMetaInfo returns (the loop breaks); readFile calls
\* readCommandSetElements, lines 852-855.
ReturnFileMetaInfo ==
  /\ pc = "loop"
  /\ caller = "readFileMetaInfo"
  /\ Iteration(bytes, frame).kind = "break"
  /\ fileMetaInfo' = frame.dataset
  /\ cursorAfterFileMeta' = newCursorPosition(frame)
  /\ frame' = EnterReadDataset(bytes, cursorAfterFileMeta', FALSE, TRUE, "_notGroup0000")
  /\ caller' = "readCommandSetElements"
  /\ headers' = <<>>
  /\ UNCHANGED << bytes, pc, cursorAfterPreamble, datasetStart, commandSetElements,
                  dataset, mode, fullDataset, error >>
  /\ UNCHANGED << keyVars, pixelVars >>

\* readCommandSetElements returns, lines 854-855.
ReturnCommandSetElements ==
  /\ pc = "loop"
  /\ caller = "readCommandSetElements"
  /\ Iteration(bytes, frame).kind = "break"
  /\ commandSetElements' = frame.dataset
  /\ datasetStart' = newCursorPosition(frame)
  /\ pc' = "readOrGuess"
  /\ UNCHANGED << bytes, cursorAfterPreamble, cursorAfterFileMeta, fileMetaInfo,
                  dataset, mode, fullDataset, frame, caller, headers, error >>
  /\ UNCHANGED << keyVars, pixelVars >>

\* readFile, lines 859-887: the transfer syntax, the mode, and the call of
\* readDataset for the main dataset.
SetMode(guess) ==
  IF guess.threw
    THEN /\ pc' = "threw"
         /\ error' = "TypeError: undefined is not iterable"
         /\ UNCHANGED << mode, frame, caller, headers >>
    ELSE /\ mode' = [ isImplicitVR |-> guess.isImplicitVR,
                      isLittleEndian |-> guess.isLittleEndian ]
         /\ frame' = EnterReadDataset(bytes, datasetStart, guess.isImplicitVR,
                                      guess.isLittleEndian, undefined)
         /\ caller' = "readFile"
         /\ headers' = <<>>
         /\ pc' = "loop"
         /\ error' = error

transferSyntaxOf(meta) == get(meta, "00020010")

ReadOrGuess ==
  /\ pc = "readOrGuess"
  /\ SetMode(readOrGuessIsImplicitVrAndIsLittleEndian(
               bytes, datasetStart, transferSyntaxOf(fileMetaInfo)))
  /\ UNCHANGED << bytes, cursorAfterPreamble, cursorAfterFileMeta, datasetStart,
                  fileMetaInfo, commandSetElements, dataset, fullDataset >>
  /\ UNCHANGED << keyVars, pixelVars >>

\* The main readDataset returns; readFile builds fullDataset and returns it,
\* lines 882-896.
MakeFullDataset(main, meta, command, m) ==
  [ tags |-> Spread(Spread(main, meta), command),
    isLittleEndian |-> m.isLittleEndian,
    isImplicitVR |-> m.isImplicitVR ]

ReturnFullDataset ==
  /\ pc = "loop"
  /\ caller = "readFile"
  /\ Iteration(bytes, frame).kind = "break"
  /\ dataset' = frame.dataset
  /\ fullDataset' = MakeFullDataset(frame.dataset, fileMetaInfo, commandSetElements, mode)
  /\ pc' = "done"
  /\ UNCHANGED << bytes, cursorAfterPreamble, cursorAfterFileMeta, datasetStart,
                  fileMetaInfo, commandSetElements, mode, frame, caller, headers, error >>
  /\ UNCHANGED << keyVars, pixelVars >>

Next ==
  \/ ReadPreamble
  \/ ReadElement
  \/ Throw
  \/ ReturnFileMetaInfo
  \/ ReturnCommandSetElements
  \/ ReadOrGuess
  \/ ReturnFullDataset

Spec == Init /\ [][Next]_vars

\* -------------------------------------------------------------- getSafeKey
\* Insertions as readDataset makes them, line 387, into an object that starts
\* empty: dataset[getSafeKey(dataset, tag.keyword)] = tag.
MaxInserts == 4

Keywords == { "PatientID", "GroupLength", "Unknown", "Unknown-PrivateTag" }

KeyInit ==
  /\ bytes = <<>>
  /\ FileStart("idle")
  /\ KeyStart
  /\ pixel = NoPixel
  /\ PixelStart("idle")

Insert(keyword) ==
  /\ Len(insertions) < MaxInserts
  /\ object' = Put(object, getSafeKey(object, keyword),
                   [ keyword |-> keyword, serial |-> Len(insertions) + 1 ])
  /\ insertions' = Append(insertions, keyword)
  /\ UNCHANGED << fileVars, pixelVars >>

KeyNext == \E keyword \in Keywords : Insert(keyword)

KeySpec == KeyInit /\ [][KeyNext]_vars

\* ------------------------------------------------------------ getPixelData
\* The number of bytes of the Pixel Data element.
MaxPixelBytes == 2

PixelBytes == { 0, 127, 128, 255 }

RECURSIVE RawValues(_)
RawValues(n) ==
  IF n = 0 THEN { <<>> }
  ELSE RawValues(n - 1) \cup
       { Append(raw, b) : raw \in { r \in RawValues(n - 1) : Len(r) = n - 1 }, b \in PixelBytes }

\* numberToHex: ('0' + i.toString(16)).slice(-2)
takeRight2(s) == SubSeq(s, Len(s) - 1, Len(s))
numberToHex(i) == takeRight2("0" \o toString16(i))

\* reduce(pixelData.rawValue, (acc, i) => acc + numberToHex(i), '')
RECURSIVE reduceToHex(_)
reduceToHex(rawValue) ==
  IF rawValue = <<>> THEN ""
  ELSE numberToHex(Head(rawValue)) \o reduceToHex(Tail(rawValue))

\* map(chunk(s, size), join): the pieces of s of size characters, the last
\* one shorter when s does not divide.
RECURSIVE chunk(_, _)
chunk(s, size) ==
  IF Len(s) = 0 THEN <<>>
  ELSE IF Len(s) <= size THEN << s >>
  ELSE << SubSeq(s, 1, size) >> \o chunk(SubSeq(s, size + 1, Len(s)), size)

\* join(reverse(pieces), '')
RECURSIVE joinReversed(_)
joinReversed(pieces) ==
  IF pieces = <<>> THEN ""
  ELSE joinReversed(Tail(pieces)) \o Head(pieces)

littleEndianToBigEndian(hex) ==
  IF Len(hex) > 2 THEN joinReversed(chunk(hex, 2)) ELSE hex

\* parseInt(s, 16) and parseInt(s, 2) of a string of digits of that base.
DigitValue(c) == CHOOSE d \in 0..15 : HexDigit(d) = c

RECURSIVE parseInt(_, _)
parseInt(s, radix) ==
  IF Len(s) = 0 THEN 0
  ELSE parseInt(SubSeq(s, 1, Len(s) - 1), radix) * radix
       + DigitValue(SubSeq(s, Len(s), Len(s)))

\* n.toString(2) for n >= 0.
RECURSIVE toString2(_)
toString2(n) ==
  IF n < 2 THEN HexDigit(n) ELSE toString2(n \div 2) \o HexDigit(n % 2)

\* join(map(bits, (b) => (b === '0' ? '1' : '0')), '')
RECURSIVE flipBits(_)
flipBits(bits) ==
  IF Len(bits) = 0 THEN ""
  ELSE (IF SubSeq(bits, 1, 1) = "0" THEN "1" ELSE "0")
       \o flipBits(SubSeq(bits, 2, Len(bits)))

negated(value) == IF value = 0 THEN -32768 ELSE value

signedOfBits(bits) ==
  IF SubSeq(bits, 1, 1) = "1" /\ Len(bits) = 16
  THEN negated(-(parseInt(flipBits(bits), 2) + 1))
  ELSE parseInt(bits, 2)

pixelDataToSignedInt(data) ==
  [ i \in DOMAIN data |-> signedOfBits(toString2(parseInt(data[i], 16))) ]

\* adjustToWindow.  The window's two ends are halves of integers, so the
\* model keeps twice each quantity: min2 is 2 * minPixelValue and so on; the
\* product positiveValue * scalingFactor is positive2 * 255 / (|min2| + |max2|).
\* For the windows drawn below the double-precision product has the floor of
\* the exact one.
windowValue(tag, default) ==
  IF tag # <<>> /\ tag[1] # 0 THEN tag[1] ELSE default

valueInRange2(value, min2, max2) == Min(Max(2 * value, min2), max2)

positiveValue2(inRange2, min2) ==
  IF min2 < 0 THEN inRange2 + Abs(min2) ELSE inRange2

roundScaled(positive2, min2, max2) ==
  (2 * positive2 * 255 + (Abs(min2) + Abs(max2))) \div (2 * (Abs(min2) + Abs(max2)))

floorScaled(positive2, min2, max2) ==
  (positive2 * 255) \div (Abs(min2) + Abs(max2))

adjustBetween(pixelData, min2, max2) ==
  [ i \in DOMAIN pixelData |->
      floorScaled(positiveValue2(valueInRange2(pixelData[i], min2, max2), min2),
                  min2, max2) ]

adjustWith(pixelData, safeWindowCenter, safeWindowWidth) ==
  adjustBetween(pixelData, 2 * safeWindowCenter - safeWindowWidth,
                2 * safeWindowCenter + safeWindowWidth)

adjustToWindow(pixelData, windowCenter, windowWidth) ==
  adjustWith(pixelData, windowValue(windowCenter, 610), windowValue(windowWidth, 1221))

\* toUpper(x.toString(16))
UpperHexDigits == "0123456789ABCDEF"
RECURSIVE toUpperString16(_)
toUpperString16(n) ==
  IF n < 16 THEN SubSeq(UpperHexDigits, n + 1, n + 1)
  ELSE toUpperString16(n \div 16) \o SubSeq(UpperHexDigits, (n % 16) + 1, (n % 16) + 1)

padStart2(s) == IF Len(s) < 2 THEN "0" \o s ELSE s

repeat3(value) == "#" \o value \o value \o value

hexColour(x) == repeat3(padStart2(toUpperString16(x)))

\* ceil(bitsAllocated.value / 8) * 2
hexAllocated(bitsAllocated) == ((bitsAllocated + 7) \div 8) * 2

pixelDataHexString(p) ==
  chunk(reduceToHex(p.pixelData[1]), hexAllocated(p.bitsAllocated))

WindowCenters == { <<>>, << 0 >>, << 128 >> }
WindowWidths == { <<>>, << 0 >>, << 256 >> }

PixelInit ==
  /\ bytes = <<>>
  /\ FileStart("idle")
  /\ KeyStart
  /\ \E bitsAllocated \in { 8, 16 }, stored \in { << 8, 7 >>, << 16, 15 >>, << 12, 15 >> },
        photometricInterpretation \in { <<>>, << "MONOCHROME1" >>, << "MONOCHROME2" >> },
        pixelRepresentation \in { 0, 1 },
        rescale \in { << <<>>, <<>> >>, << << 1 >>, << 0 >> >>, << << 2 >>, << -128 >> >> },
        windowCenter \in WindowCenters, windowWidth \in WindowWidths,
        pixelData \in { <<>> } \cup { << raw >> : raw \in RawValues(MaxPixelBytes) } :
       pixel = [ bitsAllocated |-> bitsAllocated, bitsStored |-> stored[1],
                 highBit |-> stored[2],
                 photometricInterpretation |-> photometricInterpretation,
                 pixelRepresentation |-> pixelRepresentation,
                 rescaleSlope |-> rescale[1], rescaleIntercept |-> rescale[2],
                 windowCenter |-> windowCenter, windowWidth |-> windowWidth,
                 pixelData |-> pixelData ]
  /\ PixelStart("getPixelData")

\* Lines 783-787: no Pixel Data element, nothing is returned.
NoPixelData ==
  /\ stage = "getPixelData"
  /\ pixel.pixelData = <<>>
  /\ stage' = "returned nothing"
  /\ UNCHANGED << pixel, pixelDataBigEndian, pixelDataSignedScaled,
                  pixelDataWindowAdjusted, hexStringArrayPixelData >>
  /\ UNCHANGED << fileVars, keyVars >>

\* Lines 788-809.
ToBigEndian ==
  /\ stage = "getPixelData"
  /\ pixel.pixelData # <<>>
  /\ pixelDataBigEndian' =
       IF pixel.highBit + 1 = pixel.bitsStored
       THEN [ i \in DOMAIN pixelDataHexString(pixel) |->
                littleEndianToBigEndian(pixelDataHexString(pixel)[i]) ]
       ELSE pixelDataHexString(pixel)
  /\ stage' = "pixelDataBigEndian"
  /\ UNCHANGED << pixel, pixelDataSignedScaled, pixelDataWindowAdjusted,
                  hexStringArrayPixelData >>
  /\ UNCHANGED << fileVars, keyVars >>

\* Lines 816-823.
rescaleSlopeValue(p) == IF p.rescaleSlope # <<>> THEN p.rescaleSlope[1] ELSE 1
rescaleInterceptValue(p) == IF p.rescaleIntercept # <<>> THEN p.rescaleIntercept[1] ELSE 0

rescaled(p, numbers) ==
  [ i \in DOMAIN numbers |-> rescaleSlopeValue(p) * numbers[i] + rescaleInterceptValue(p) ]

ToSignedScaled ==
  /\ stage = "pixelDataBigEndian"
  /\ pixelDataSignedScaled' =
       rescaled(pixel,
                IF pixel.pixelRepresentation = 0
                THEN [ i \in DOMAIN pixelDataBigEndian |-> parseInt(pixelDataBigEndian[i], 16) ]
                ELSE pixelDataToSignedInt(pixelDataBigEndian))
  /\ stage' = "pixelDataSignedScaled"
  /\ UNCHANGED << pixel, pixelDataBigEndian, pixelDataWindowAdjusted,
                  hexStringArrayPixelData >>
  /\ UNCHANGED << fileVars, keyVars >>

\* Lines 826-830.
ToWindowAdjusted ==
  /\ stage = "pixelDataSignedScaled"
  /\ pixelDataWindowAdjusted' =
       adjustToWindow(pixelDataSignedScaled, pixel.windowCenter, pixel.windowWidth)
  /\ stage' = "pixelDataWindowAdjusted"
  /\ UNCHANGED << pixel, pixelDataBigEndian, pixelDataSignedScaled,
                  hexStringArrayPixelData >>
  /\ UNCHANGED << fileVars, keyVars >>

\* Lines 832-842.
pixelDataInterpreted(p, adjusted) ==
  IF p.photometricInterpretation # <<>> /\ p.photometricInterpretation[1] = "MONOCHROME1"
  THEN [ i \in DOMAIN adjusted |-> 255 - adjusted[i] ]
  ELSE adjusted

hexStrings(interpreted) == [ i \in DOMAIN interpreted |-> hexColour(interpreted[i]) ]

ReturnPixelData ==
  /\ stage = "pixelDataWindowAdjusted"
  /\ hexStringArrayPixelData' = hexStrings(pixelDataInterpreted(pixel, pixelDataWindowAdjusted))
  /\ stage' = "returned"
  /\ UNCHANGED << pixel, pixelDataBigEndian, pixelDataSignedScaled,
                  pixelDataWindowAdjusted >>
  /\ UNCHANGED << fileVars, keyVars >>

PixelNext ==
  \/ NoPixelData
  \/ ToBigEndian
  \/ ToSignedScaled
  \/ ToWindowAdjusted
  \/ ReturnPixelData

PixelSpec == PixelInit /\ [][PixelNext]_vars

\* ------------------------------------------------------------------ claims
\* What the headers of the running readDataset call say.
HeaderIndices == 1..Len(headers)
ValueStart(h) == h.offset + h.cursorChange
TagAt(object_, key) == get(object_, key)[1]

\* The bytes a header advanced the cursor by: up to the next header the call
\* went past, or up to the cursor of the call for the last one.
Advance(i) ==
  IF i < Len(headers) THEN headers[i + 1].offset - headers[i].offset
  ELSE newCursorPosition(frame) - headers[i].offset

\* The TransferSyntaxUID values in the File Meta block.
TransferSyntaxValues ==
  { fileMetaInfo[i].tag.value.str :
      i \in { j \in 1..Len(fileMetaInfo) : fileMetaInfo[j].tag.representation = "00020010" } }

ModeOfUid(uid) ==
  CASE uid = ImplicitVRLittleEndian -> << TRUE, TRUE >>
    [] uid = ExplicitVRLittleEndian -> << FALSE, TRUE >>
    [] uid = ExplicitVRBigEndian -> << FALSE, FALSE >>
    [] OTHER -> << FALSE, TRUE >>

\* C1: when the File Meta block holds a TransferSyntaxUID, readFile reads the
\* main dataset with, and reports, the (isImplicitVR, isLittleEndian) of that
\* UID, whatever the main dataset starts with.  (Stated for a main dataset
\* that has at least one byte and a UID that is whole.)
C1_ModeFollowsTransferSyntax ==
  (pc = "done" /\ Cardinality(TransferSyntaxValues) = 1 /\ datasetStart < Len(bytes)) =>
    \A uid \in TransferSyntaxValues :
      uid \in { ImplicitVRLittleEndian, ExplicitVRLittleEndian, ExplicitVRBigEndian } =>
        /\ << fullDataset.isImplicitVR, fullDataset.isLittleEndian >> = ModeOfUid(uid)
        /\ << frame.isImplicitVR, frame.isLittleEndian >> = ModeOfUid(uid)

\* C2: no exception raised while parsing an element, whatever its group,
\* element, VR mode and dictionary entry, leaves readFile.  (Stated for the
\* exceptions that getTagInfo and createTag raise.)
C2_NoExceptionLeavesReadFile ==
  pc = "threw" =>
    error \notin { "Error", "TypeError: cannot read properties of undefined" }

\* Every tag of a block is the value of some key of the FullDataset.
Reachable(block) ==
  \A i \in 1..Len(block) :
    \E j \in 1..Len(fullDataset.tags) : fullDataset.tags[j].tag = block[i].tag

\* C3: every element of the File Meta block, of the Command Set block and of
\* the main dataset is the value of some key of the FullDataset returned.
C3_AllBlocksReachable ==
  pc = "done" =>
    /\ Reachable(fileMetaInfo)
    /\ Reachable(commandSetElements)
    /\ Reachable(dataset)

\* C4: every element readDataset inserts has a rawValue of as many bytes as
\* its length field says.
C4_RawValueHasLengthBytes ==
  \A i \in 1..Len(frame.dataset) :
    ToU32(Len(frame.dataset[i].tag.rawValue)) = frame.dataset[i].tag.length

\* The group numbers of the elements of a block.
GroupsOf(block) == { block[i].tag.representations.group : i \in 1..Len(block) }

\* C5: in the result of readFile the File Meta elements all have group 0x0002,
\* the Command Set elements all have group 0x0000, and no element of the main
\* dataset has group 0x0002 or 0x0000.
C5_GroupsStayInTheirBlock ==
  pc = "done" =>
    /\ GroupsOf(fileMetaInfo) \subseteq {2}
    /\ GroupsOf(commandSetElements) \subseteq {0}
    /\ GroupsOf(dataset) \cap {0, 2} = {}

\* The elements inserted up to the i-th that have the i-th one's keyword.
InsertedBefore(i) == { j \in 1..i : insertions[j] = insertions[i] }

\* C6: inserting elements through getSafeKey into an object that starts empty
\* gives the i-th element the key keyword-k, k counting the elements with that
\* keyword inserted so far: the keys of n elements with one keyword are
\* keyword-1 .. keyword-n in insertion order, the bare keyword is never a key
\* and no insertion overwrites an entry.
C6_KeysAreNumberedInInsertionOrder ==
  /\ Len(object) = Len(insertions)
  /\ \A i \in 1..Len(object) :
       /\ i <= Len(insertions)
       /\ object[i].key = insertions[i] \o "-" \o ToString(Cardinality(InsertedBefore(i)))
       /\ object[i].tag.serial = i
       /\ object[i].key # object[i].tag.keyword

\* Three elements with one keyword have been inserted.
C6_Witness ==
  /\ insertions = << "PatientID", "PatientID", "PatientID" >>
  /\ Len(object) = 3
  /\ << object[1].key, object[2].key, object[3].key >> =
       << "PatientID-1", "PatientID-2", "PatientID-3" >>

\* The settings of the example: unsigned pixels, slope 1, intercept 0, the
\* window 128 / 256, MONOCHROME2, and pixels stored as bytes or as
\* little-endian words.
ExampleSettings ==
  /\ stage = "returned"
  /\ pixel.pixelRepresentation = 0
  /\ pixel.rescaleSlope = << 1 >>
  /\ pixel.rescaleIntercept = << 0 >>
  /\ pixel.windowCenter = << 128 >>
  /\ pixel.windowWidth = << 256 >>
  /\ pixel.photometricInterpretation = << "MONOCHROME2" >>
  /\ (pixel.bitsAllocated = 8 \/ pixel.highBit + 1 = pixel.bitsStored)

\* The value stored for the i-th pixel.
StoredValue(i) ==
  IF pixel.bitsAllocated = 8 THEN pixel.pixelData[1][i]
  ELSE pixel.pixelData[1][2 * i - 1]
       + (IF 2 * i <= Len(pixel.pixelData[1]) THEN 256 * pixel.pixelData[1][2 * i] ELSE 0)

\* Every pixel that stores the value has the colour.
Maps(stored, colour) ==
  \A i \in DOMAIN hexStringArrayPixelData :
    StoredValue(i) = stored => hexStringArrayPixelData[i] = colour

\* C7: with pixelRepresentation 0, rescaleSlope 1, rescaleIntercept 0,
\* windowCenter 128, windowWidth 256 and MONOCHROME2, getPixelData maps the
\* stored value 0 to #000000, 128 to #808080 and 255 to #FFFFFF.
C7_ExampleColours ==
  ExampleSettings =>
    Maps(0, "#000000") /\ Maps(128, "#808080") /\ Maps(255, "#FFFFFF")

\* C7, amended: with these settings getPixelData maps the stored value 0 to
\* #000000, 128 to #7F7F7F and 255 to #FEFEFE, the floors of 0, 127.5 and
\* 254.00390625.
C7_ExampleColoursFloored ==
  ExampleSettings =>
    Maps(0, "#000000") /\ Maps(128, "#7F7F7F") /\ Maps(255, "#FEFEFE")

\* The example's settings with a pixel that stores 128 and one that stores 255.
C7_Witness ==
  /\ ExampleSettings
  /\ \E i \in DOMAIN hexStringArrayPixelData : StoredValue(i) = 128
  /\ \E i \in DOMAIN hexStringArrayPixelData : StoredValue(i) = 255

\* The dataset of the running read holds the tag of header h as a private tag.
KeptAsPrivateTag(h) ==
  /\ h.key # ""
  /\ has(frame.dataset, h.key)
  /\ TagAt(frame.dataset, h.key).keyword = "Unknown-PrivateTag"
  /\ TagAt(frame.dataset, h.key).representations.group = h.group
  /\ TagAt(frame.dataset, h.key).representations.element = h.elem
  /\ TagAt(frame.dataset, h.key).rawValue =
       Slice(bytes, ValueStart(h), ValueStart(h) + U32Value(h.length))

\* C8, as stated: every odd-group tag readDataset goes past, whatever its
\* length field, is in the dataset with keyword Unknown-PrivateTag and the
\* bytes of its value range as rawValue.
C8_EveryPrivateTagIsKept ==
  \A i \in HeaderIndices : headers[i].group % 2 = 1 => KeptAsPrivateTag(headers[i])

\* C8, amended: every odd-group tag readDataset goes past whose length field
\* is neither 0 nor 0xFFFFFFFF is in the dataset, under a key of its own, with
\* keyword Unknown-PrivateTag and, as rawValue, the bytes of the input that
\* lie in its value range; one whose length field is 0 or 0xFFFFFFFF adds no
\* element.
C8_PrivateTagWithValueIsKept ==
  \A i \in HeaderIndices :
    headers[i].group % 2 = 1 =>
      IF headers[i].length \in { << 0, 0 >>, UndefinedLength }
        THEN headers[i].key = ""
        ELSE /\ KeptAsPrivateTag(headers[i])
             /\ \A j \in HeaderIndices : j # i => headers[j].key # headers[i].key

\* A private tag with a value, read in explicit-VR mode with its value whole.
C8_Witness ==
  /\ pc = "done"
  /\ ~frame.isImplicitVR
  /\ \E i \in HeaderIndices :
       /\ headers[i].group % 2 = 1
       /\ headers[i].VR = "UN"
       /\ headers[i].length = << 0, 2 >>
       /\ headers[i].key = "Unknown-PrivateTag-1"
       /\ Len(TagAt(frame.dataset, headers[i].key).rawValue) = 2

\* The up to 12 bytes at a header's offset.
IsUpper(byte) == byte \in 65..90
HeaderBytes(h) == Slice(bytes, h.offset, h.offset + 12)

\* C9: in explicit-VR mode a defined-length element whose VR is in
\* ExtraLengthVRs has the 32-bit value at header offset 8 as its length and
\* advances the cursor by 12 + length; an element with any other VR of two
\* uppercase letters advances it by 8 + its 16-bit length.
C9_ExplicitAdvance ==
  \A i \in HeaderIndices :
    LET hb == HeaderBytes(headers[i])
        vr == arrayToText(SubSeq(hb, 5, 6))
    IN (~frame.isImplicitVR /\ IsUpper(hb[5]) /\ IsUpper(hb[6])) =>
         IF vr \in ExtraLengthVRs
           THEN (Len(hb) = 12 /\ U32(hb, 8, frame.isLittleEndian) # UndefinedLength) =>
                  /\ headers[i].length = U32(hb, 8, frame.isLittleEndian)
                  /\ Advance(i) = 12 + U32Value(headers[i].length)
           ELSE Advance(i) = 8 + U16(hb, 6, frame.isLittleEndian)

\* C10: a header of length 0xFFFFFFFF ends the running dataset read: no
\* element after it is added, and the cursor returned is the one just past
\* that header.
C10_UndefinedLengthEndsTheRead ==
  \A i \in HeaderIndices :
    headers[i].length = UndefinedLength =>
      /\ \A j \in HeaderIndices : j > i => headers[j].key = ""
      /\ newCursorPosition(frame) = ValueStart(headers[i])

\* Where the loop of the running readDataset call stands: the offset of the
\* first byte of the header it probes next.
Standing == frame.cursor + frame.cursorPositionChange

\* At offset pos the input ends (fewer than 8 bytes remain) or a header of
\* another group than the one given starts.
StopsAt(pos, group) == pos + 8 <= Len(bytes) => U16(bytes, pos, TRUE) # group

\* The headers the running call went past all have the group given, lie
\* before the place the loop stands at, and its dataset holds one element for
\* each of them that inserted one.
OnlyElementsBefore(group) ==
  /\ \A i \in HeaderIndices : headers[i].group = group /\ headers[i].offset < Standing
  /\ Len(frame.dataset) = Cardinality({ i \in HeaderIndices : headers[i].key # "" })
  /\ \A i \in HeaderIndices : headers[i].key # "" => has(frame.dataset, headers[i].key)

StopLeavesTheHeaderUnread ==
  /\ (pc = "loop" /\ caller = "readFileMetaInfo") =>
       /\ OnlyElementsBefore(2)
       /\ caller' = "readCommandSetElements" =>
            /\ StopsAt(Standing, 2)
            /\ cursorAfterFileMeta' = Standing
            /\ fileMetaInfo' = frame.dataset
            /\ frame'.cursor = Standing
  /\ (pc = "loop" /\ caller = "readCommandSetElements") =>
       /\ OnlyElementsBefore(0)
       /\ pc' = "readOrGuess" =>
            /\ StopsAt(Standing, 0)
            /\ datasetStart' = Standing
            /\ commandSetElements' = frame.dataset
  /\ (pc = "readOrGuess" /\ pc' = "loop") => frame'.cursor = datasetStart

\* C11: a readDataset call whose stop predicate returns true for the header
\* it probes returns without consuming it: its dataset holds only the
\* elements before that header and newCursorPosition is the offset of the
\* header's first byte; so in readFile the Command Set read starts at the
\* first header that is not of group 0x0002 and the main dataset read at the
\* first header that is not of group 0x0000.
C11_StopLeavesTheHeaderUnread == [][StopLeavesTheHeaderUnread]_vars

\* Both predicates stopped at a header: the File Meta read after an element
\* of group 0x0002, the Command Set read at the same header, where the main
\* dataset read then starts.
C11_Witness ==
  /\ caller = "readFile"
  /\ Len(fileMetaInfo) >= 1
  /\ cursorAfterFileMeta + 8 <= Len(bytes)
  /\ U16(bytes, cursorAfterFileMeta, TRUE) \notin { 0, 2 }
  /\ datasetStart = cursorAfterFileMeta
  /\ frame.cursor = datasetStart

\* The two's-complement value over n bits of the unsigned value u.
TwosComplement(u, n) == IF u < 2 ^ (n - 1) THEN u ELSE u - 2 ^ n

\* The chunks of bytesPerPixel bytes, by their index in pixelDataBigEndian.
WholeChunks ==
  { i \in DOMAIN pixelDataBigEndian :
      Len(pixelDataBigEndian[i]) = hexAllocated(pixel.bitsAllocated) }

\* C12: with pixelRepresentation 1, getPixelData decodes every chunk of
\* bytesPerPixel bytes (1 or 2) as its two's-complement value over
\* bytesPerPixel * 8 bits, to which the rescale is then applied; the 16-bit
\* chunk 0x8000 decodes to -32768.
C12_SignedChunksAreTwosComplement ==
  (stage \in { "pixelDataSignedScaled", "pixelDataWindowAdjusted", "returned" }
   /\ pixel.pixelRepresentation = 1) =>
    \A i \in WholeChunks :
      pixelDataSignedScaled[i] =
        rescaleSlopeValue(pixel)
          * TwosComplement(parseInt(pixelDataBigEndian[i], 16), 4 * Len(pixelDataBigEndian[i]))
        + rescaleInterceptValue(pixel)

\* C13: the loop of readDataset terminates: every iteration that does not
\* stop moves the relative offset on by at least 8, and a call without a stop
\* predicate (the main dataset read) ends its loop exactly when fewer than 8
\* bytes remain from the place it stands at.
C13_LoopEndsAtTheEndOfInput ==
  /\ \A i \in HeaderIndices : Advance(i) >= 8
  /\ (caller = "readFile" /\ pc \in { "done", "threw" }) => Standing + 8 > Len(bytes)

====
